---- MODULE Spec2Model ----
(***************************************************************************)
(* Model of text-processor-wasm (src/text-processor-wasm/src/lib.rs): the  *)
(* TextProcessor word cache, its tokenizer, the co-occurrence graph        *)
(* builder and the statistics queries.                                     *)
(*                                                                         *)
(* A Rust String is modelled as the sequence of its chars, each char as    *)
(* its Unicode code point; String::len() and the ordering of Strings are   *)
(* computed on the UTF-8 encoding, as the standard library does.  A Vec    *)
(* filled by iterating a HashMap has no specified order and is modelled as *)
(* a bag of its elements.  processingTime (wall clock) and the console     *)
(* output are not modelled.                                                *)
(***************************************************************************)
EXTENDS Bags, FiniteSets, Integers, Sequences, TLC

VARIABLES
    word_cache,        \* TextProcessor.word_cache: word -> WordMetadata
    generation_count,  \* TextProcessor.generation_count
    result,            \* the value returned by the most recent call
    submitted,         \* the JS array handed to the most recent tokenize_generations
    evicted,           \* the most recent tokenize_generations discarded a cached word
    text               \* the argument of tokenize_sentence (tokenizer specification)

vars == <<word_cache, generation_count, result, submitted, evicted, text>>

(***************************************************************************)
(* Bounds of the model.                                                    *)
(***************************************************************************)
MaxGens == 2       \* longest generations array submitted
MaxFreq == 3       \* largest min_frequency passed to build_word_graph
MaxTextLen == 4    \* longest text given to tokenize_sentence on its own

(***************************************************************************)
(* Generic helpers.                                                        *)
(***************************************************************************)
RECURSIVE Flatten(_)
Flatten(ss) == IF ss = <<>> THEN <<>> ELSE Head(ss) \o Flatten(Tail(ss))

RECURSIVE SumOver(_, _)
SumOver(f, S) ==
    IF S = {} THEN 0
    ELSE LET x == CHOOSE y \in S : TRUE IN f[x] + SumOver(f, S \ {x})

SeqContains(s, x) == \E i \in 1..Len(s) : s[i] = x

SeqsUpTo(S, n) == UNION {[1..k -> S] : k \in 0..n}

(***************************************************************************)
(* chars and Strings.                                                      *)
(***************************************************************************)
\* char::is_alphabetic: the Alphabetic property, on the code points below
\* U+0250; every other code point the model uses (U+0307) is not alphabetic.
is_alphabetic(c) ==
    \/ c \in 65..90
    \/ c \in 97..122
    \/ c \in {170, 181, 186}
    \/ c \in 192..214
    \/ c \in 216..246
    \/ c \in 248..591

\* char::is_whitespace: the White_Space property.
is_whitespace(c) ==
    \/ c \in 9..13
    \/ c \in {32, 133, 160, 5760, 8232, 8233, 8239, 8287, 12288}
    \/ c \in 8192..8202

\* char::to_lowercase on the code points the inputs use: ASCII and Latin-1
\* capitals move to their small letters, U+0130 (capital I with dot above)
\* becomes the two chars 'i' U+0307, everything else is unchanged.
char_to_lowercase(c) ==
    IF c \in 65..90 \/ c \in 192..214 \/ c \in 216..222 THEN <<c + 32>>
    ELSE IF c = 304 THEN <<105, 775>>
    ELSE <<c>>

\* str::to_lowercase
to_lowercase(s) == Flatten([i \in 1..Len(s) |-> char_to_lowercase(s[i])])

\* The UTF-8 encoding of one char (code points below U+10000).
Utf8(c) ==
    IF c < 128 THEN <<c>>
    ELSE IF c < 2048 THEN <<192 + (c \div 64), 128 + (c % 64)>>
    ELSE <<224 + (c \div 4096), 128 + ((c \div 64) % 64), 128 + (c % 64)>>

Bytes(s) == Flatten([i \in 1..Len(s) |-> Utf8(s[i])])

\* String::len(): the length in bytes.
StrLen(s) == Len(Bytes(s))

\* String's `<`: lexicographic comparison of the bytes.
RECURSIVE BytesLess(_, _)
BytesLess(a, b) ==
    IF b = <<>> THEN FALSE
    ELSE IF a = <<>> THEN TRUE
    ELSE IF Head(a) # Head(b) THEN Head(a) < Head(b)
    ELSE BytesLess(Tail(a), Tail(b))

StrLess(a, b) == BytesLess(Bytes(a), Bytes(b))

(***************************************************************************)
(* tokenize_sentence                                                       *)
(***************************************************************************)
KeepChar_Punct(c) == is_alphabetic(c) \/ is_whitespace(c) \/ c = 124

\* the test of the closure given to map()
KeepChar(c) == is_alphabetic(c) \/ is_whitespace(c)

MapChars_Strip(s) == SelectSeq(s, KeepChar)

\* .chars().map(|c| if ... { c } else { ' ' }).collect::<String>()
MapChars(s) == [i \in 1..Len(s) |-> IF KeepChar(s[i]) THEN s[i] ELSE 32]

\* str::split_whitespace: the non-empty pieces between runs of whitespace.
RECURSIVE SplitFrom(_, _, _)
SplitFrom(s, cur, acc) ==
    IF s = <<>> THEN (IF cur = <<>> THEN acc ELSE Append(acc, cur))
    ELSE IF is_whitespace(Head(s))
         THEN SplitFrom(Tail(s), <<>>, IF cur = <<>> THEN acc ELSE Append(acc, cur))
         ELSE SplitFrom(Tail(s), Append(cur, Head(s)), acc)

split_whitespace(s) == SplitFrom(s, <<>>, <<>>)

NotEmpty(word) == word # <<>>

tokenize_sentence(sentence) ==
    SelectSeq(split_whitespace(MapChars(to_lowercase(sentence))), NotEmpty)

(***************************************************************************)
(* TextProcessor::new                                                      *)
(***************************************************************************)
stop_words == {
    <<116,104,101>>, <<97>>, <<97,110>>, <<97,110,100>>, <<111,114>>, <<98,117,116>>,
    <<105,110>>, <<111,110>>, <<97,116>>, <<116,111>>, <<102,111,114>>, <<111,102>>,
    <<119,105,116,104>>, <<98,121>>, <<102,114,111,109>>, <<97,115>>, <<105,115>>,
    <<119,97,115>>, <<97,114,101>>, <<119,101,114,101>>, <<98,101>>,
    <<98,101,101,110>>, <<98,101,105,110,103>>, <<104,97,118,101>>, <<104,97,115>>,
    <<104,97,100>>, <<100,111>>, <<100,111,101,115>>, <<100,105,100>>,
    <<119,105,108,108>>, <<119,111,117,108,100>>, <<99,111,117,108,100>>,
    <<115,104,111,117,108,100>>, <<109,97,121>>, <<109,105,103,104,116>>,
    <<109,117,115,116>>, <<115,104,97,108,108>>, <<116,104,105,115>>,
    <<116,104,97,116>>, <<116,104,101,115,101>>, <<116,104,111,115,101>>, <<105>>,
    <<121,111,117>>, <<104,101>>, <<115,104,101>>, <<105,116>>, <<119,101>>,
    <<116,104,101,121>>, <<109,101>>, <<104,105,109>>, <<104,101,114>>, <<117,115>>,
    <<116,104,101,109>>, <<109,121>>, <<121,111,117,114>>, <<104,105,115>>,
    <<116,104,101,105,114>>, <<111,117,114>>
}

EmptyCache == [w \in {} |-> 0]

(***************************************************************************)
(* process_sentence                                                        *)
(***************************************************************************)
\* the test guarding the body of the loop over the tokens
Retained(word) == word \notin stop_words /\ StrLen(word) > 2

PushSentence_NoDedup(sentences, sent_idx) == Append(sentences, sent_idx)

\* if !entry.sentences.contains(&sent_idx) { entry.sentences.push(sent_idx); }
PushSentence(sentences, sent_idx) ==
    IF SeqContains(sentences, sent_idx) THEN sentences ELSE Append(sentences, sent_idx)

NextCount_OncePerSentence(entry, sent_idx) ==
    IF SeqContains(entry.sentences, sent_idx) THEN entry.count ELSE entry.count + 1

\* entry.count += 1
NextCount(entry, sent_idx) == entry.count + 1

\* one iteration of the loop over the tokens, for a token that passed the test
ProcessToken(cache, word, sent_idx, word_idx) ==
    LET entry == IF word \in DOMAIN cache THEN cache[word]
                 ELSE [word |-> word, count |-> 0,
                       sentences |-> <<>>, word_indices |-> <<>>]
        updated == [word |-> entry.word,
                    count |-> NextCount(entry, sent_idx),
                    sentences |-> PushSentence(entry.sentences, sent_idx),
                    word_indices |-> Append(entry.word_indices, word_idx)]
    IN [w \in DOMAIN cache \cup {word} |-> IF w = word THEN updated ELSE cache[w]]

\* the loop over words.iter().enumerate(), from token number k (1-based) on
RECURSIVE ProcessWords(_, _, _, _)
ProcessWords(cache, words, sent_idx, k) ==
    IF k > Len(words) THEN cache
    ELSE ProcessWords(
             IF Retained(words[k]) THEN ProcessToken(cache, words[k], sent_idx, k - 1)
             ELSE cache,
             words, sent_idx, k + 1)

process_sentence(cache, sentence, sent_idx) ==
    ProcessWords(cache, tokenize_sentence(sentence), sent_idx, 1)

(***************************************************************************)
(* The values a caller passes in.                                          *)
(***************************************************************************)
JsString(s) == [is_string |-> TRUE, str |-> s]

\* a JS value that is no string (a number, null, an object)
JsNonString == [is_string |-> FALSE, str |-> <<>>]

\* "the cat sat", "the dog sat", "Dog|dog éa ox", and a non-string
SampleEntries == {
    JsString(<<116,104,101,32,99,97,116,32,115,97,116>>),
    JsString(<<116,104,101,32,100,111,103,32,115,97,116>>),
    JsString(<<68,111,103,124,100,111,103,32,233,97,32,111,120>>),
    JsNonString }

Batches == SeqsUpTo(SampleEntries, MaxGens)

\* space, tab, '|', 'A', 'a', 'é', 'İ'
TokChars == {32, 9, 124, 65, 97, 233, 304}

Texts == SeqsUpTo(TokChars, MaxTextLen)

(***************************************************************************)
(* tokenize_generations                                                    *)
(***************************************************************************)
IsString(v) == v.is_string

\* the loop pushing every entry for which as_string() is Some
GenerationsVec(generations_array) ==
    LET kept == SelectSeq(generations_array, IsString)
    IN [i \in 1..Len(kept) |-> kept[i].str]

GenerationCountOf_ArrayLength(generations_array) == Len(generations_array)

\* self.generation_count = generations_vec.len()
GenerationCountOf(generations_array) == Len(GenerationsVec(generations_array))

ClearCache_Keep(cache) == cache

\* self.word_cache.clear()
ClearCache(cache) == EmptyCache

\* the loop over generations_vec.iter().enumerate(), from entry k (1-based) on
RECURSIVE ProcessGenerations(_, _, _)
ProcessGenerations(cache, generations_vec, k) ==
    IF k > Len(generations_vec) THEN cache
    ELSE ProcessGenerations(process_sentence(cache, generations_vec[k], k - 1),
                            generations_vec, k + 1)

WordObject(metadata) ==
    [word |-> metadata.word, count |-> metadata.count,
     sentences |-> metadata.sentences, wordIndices |-> metadata.word_indices]

\* the words array, one object pushed per entry of the cache
RECURSIVE WordsArray(_, _)
WordsArray(cache, S) ==
    IF S = {} THEN EmptyBag
    ELSE LET w == CHOOSE x \in S : TRUE
         IN SetToBag({WordObject(cache[w])}) (+) WordsArray(cache, S \ {w})

TokenizeGenerations(generations) ==
    /\ submitted' = generations
    /\ generation_count' = GenerationCountOf(generations)
    /\ word_cache' = ProcessGenerations(ClearCache(word_cache),
                                        GenerationsVec(generations), 1)
    /\ result' = [op |-> "tokenize_generations", ok |-> TRUE,
                  words |-> WordsArray(word_cache', DOMAIN word_cache'),
                  totalGenerations |-> Len(GenerationsVec(generations))]
    /\ evicted' = (\E w \in DOMAIN word_cache : w \notin DOMAIN word_cache')
    /\ UNCHANGED text

(***************************************************************************)
(* build_word_graph                                                        *)
(***************************************************************************)
FilteredWords_Strict(cache, min_frequency) ==
    {w \in DOMAIN cache : cache[w].count > min_frequency}

\* the words of filtered_words: .filter(|(_, metadata)| metadata.count >= min_frequency)
FilteredWords(cache, min_frequency) ==
    {w \in DOMAIN cache : cache[w].count >= min_frequency}

\* the orders in which the HashMap may hand out the filtered entries
IterationOrders(S) ==
    {p \in [1..Cardinality(S) -> S] : \A x \in S : \E i \in 1..Cardinality(S) : p[i] = x}

GraphNodeOf(metadata) ==
    [word |-> metadata.word, count |-> metadata.count,
     sentences |-> metadata.sentences, word_indices |-> metadata.word_indices,
     children |-> <<>>, parents |-> <<>>, is_root |-> FALSE, is_end |-> FALSE]

\* the loop pushing one GraphNode per entry of filtered_words, from entry k on
RECURSIVE NodesOf(_, _, _)
NodesOf(cache, order, k) ==
    IF k > Len(order) THEN EmptyBag
    ELSE SetToBag({GraphNodeOf(cache[order[k]])}) (+) NodesOf(cache, order, k + 1)

\* the HashSet collected from meta1.sentences filtered by meta2.sentences.contains
CommonSentences(meta1, meta2) ==
    {s \in {meta1.sentences[i] : i \in 1..Len(meta1.sentences)} :
        SeqContains(meta2.sentences, s)}

PairKey_Ordered(word1, word2) == word1 \o <<124>> \o word2

\* format!("{}|{}", ...) with the smaller word first
PairKey(word1, word2) ==
    IF StrLess(word1, word2) THEN word1 \o <<124>> \o word2
    ELSE word2 \o <<124>> \o word1

\* HashMap::insert
MapInsert(map, key, value) ==
    [k \in DOMAIN map \cup {key} |-> IF k = key THEN value ELSE map[k]]

\* the two nested loops over filtered_words, from the pair (i, j) on
RECURSIVE CoOccurrence(_, _, _, _, _)
CoOccurrence(cache, order, i, j, co) ==
    IF i > Len(order) THEN co
    ELSE IF j > Len(order) THEN CoOccurrence(cache, order, i + 1, 1, co)
    ELSE LET word1 == order[i]
             word2 == order[j]
             common_sentences == CommonSentences(cache[word1], cache[word2])
         IN CoOccurrence(cache, order, i, j + 1,
                IF word1 # word2 /\ common_sentences # {}
                THEN MapInsert(co, PairKey(word1, word2), Cardinality(common_sentences))
                ELSE co)

\* str::split(sep): the pieces between the separators, empty pieces included
RECURSIVE SplitOnFrom(_, _, _, _)
SplitOnFrom(s, sep, cur, acc) ==
    IF s = <<>> THEN Append(acc, cur)
    ELSE IF Head(s) = sep THEN SplitOnFrom(Tail(s), sep, <<>>, Append(acc, cur))
    ELSE SplitOnFrom(Tail(s), sep, Append(cur, Head(s)), acc)

SplitOn(s, sep) == SplitOnFrom(s, sep, <<>>, <<>>)

\* the loop over co_occurrence pushing a GraphLink for every key of two parts
RECURSIVE LinksOf(_, _)
LinksOf(co, K) ==
    IF K = {} THEN EmptyBag
    ELSE LET key == CHOOSE x \in K : TRUE
             parts == SplitOn(key, 124)
             rest == LinksOf(co, K \ {key})
         IN IF Len(parts) = 2
            THEN SetToBag({[source |-> parts[1], target |-> parts[2],
                            weight |-> co[key]]}) (+) rest
            ELSE rest

TotalWords(cache) == SumOver([w \in DOMAIN cache |-> cache[w].count], DOMAIN cache)

UniqueWords(cache) == Cardinality(DOMAIN cache)

BuildWordGraph(min_frequency) ==
    \E order \in IterationOrders(FilteredWords(word_cache, min_frequency)) :
        LET co_occurrence == CoOccurrence(word_cache, order, 1, 1, EmptyCache)
        IN /\ result' = [op |-> "build_word_graph", ok |-> TRUE,
                         min_frequency |-> min_frequency,
                         nodes |-> NodesOf(word_cache, order, 1),
                         links |-> LinksOf(co_occurrence, DOMAIN co_occurrence),
                         total_words |-> TotalWords(word_cache),
                         unique_words |-> UniqueWords(word_cache)]
           /\ UNCHANGED <<word_cache, generation_count, submitted, evicted, text>>

(***************************************************************************)
(* get_word_frequencies, get_performance_stats                             *)
(***************************************************************************)
GetWordFrequencies ==
    /\ result' = [op |-> "get_word_frequencies",
                  frequencies |-> [w \in DOMAIN word_cache |-> word_cache[w].count]]
    /\ UNCHANGED <<word_cache, generation_count, submitted, evicted, text>>

\* f64 division of two converted unsigned integers: 0/0 is NaN, x/0 is
\* +infinity, any other quotient is the finite value num/den.
F64Div(num, den) ==
    IF den = 0
    THEN (IF num = 0 THEN [kind |-> "NaN", num |-> 0, den |-> 0]
          ELSE [kind |-> "Infinity", num |-> 0, den |-> 0])
    ELSE [kind |-> "finite", num |-> num, den |-> den]

GetPerformanceStats ==
    /\ result' = [op |-> "get_performance_stats",
                  totalWords |-> TotalWords(word_cache),
                  uniqueWords |-> UniqueWords(word_cache),
                  generations |-> generation_count,
                  averageWordsPerGeneration |->
                      F64Div(TotalWords(word_cache), generation_count)]
    /\ UNCHANGED <<word_cache, generation_count, submitted, evicted, text>>

(***************************************************************************)
(* tokenize_sentence on its own                                            *)
(***************************************************************************)
TokenizeSentence ==
    /\ result.op = "new"
    /\ result' = [op |-> "tokenize_sentence", tokens |-> tokenize_sentence(text)]
    /\ UNCHANGED <<word_cache, generation_count, submitted, evicted, text>>

(***************************************************************************)
(* Specifications.                                                         *)
(***************************************************************************)
Init ==
    /\ word_cache = EmptyCache
    /\ generation_count = 0
    /\ result = [op |-> "new"]
    /\ submitted = <<>>
    /\ evicted = FALSE
    /\ text = <<>>

Next ==
    \/ \E generations \in Batches : TokenizeGenerations(generations)
    \/ \E min_frequency \in 0..MaxFreq : BuildWordGraph(min_frequency)
    \/ GetWordFrequencies
    \/ GetPerformanceStats

Spec == Init /\ [][Next]_vars

InitTok ==
    /\ word_cache = EmptyCache
    /\ generation_count = 0
    /\ result = [op |-> "new"]
    /\ submitted = <<>>
    /\ evicted = FALSE
    /\ text \in Texts

NextTok == TokenizeSentence

SpecTok == InitTok /\ [][NextTok]_vars

(***************************************************************************)
(* Vocabulary of the properties.                                           *)
(***************************************************************************)
Elems(s) == {s[i] : i \in 1..Len(s)}

\* positions (1-based) of the text entries of a submitted array
TextPositions(arr) == {p \in 1..Len(arr) : arr[p].is_string}

\* 0-based rank of position p among the text entries
RankAmongTexts(arr, p) == Cardinality({q \in TextPositions(arr) : q < p})

\* lexicographic order of two words, char by char
LexLess(a, b) ==
    \E k \in 1..(Len(a) + 1) :
        /\ k <= Len(b)
        /\ \A i \in 1..(k - 1) : a[i] = b[i]
        /\ (k > Len(a) \/ a[k] < b[k])

\* the retained token occurrences <<position in the array, token number>>
RetainedOccurrences(arr) ==
    {o \in UNION {{<<p, j>> : j \in 1..Len(tokenize_sentence(arr[p].str))} :
                    p \in TextPositions(arr)} :
        Retained(tokenize_sentence(arr[o[1]].str)[o[2]])}

\* the word of every token occurrence of the text entries
OccurringWords(arr) ==
    UNION {Elems(tokenize_sentence(arr[p].str)) : p \in TextPositions(arr)}

Qualifying(min_frequency) ==
    {w \in DOMAIN word_cache : word_cache[w].count >= min_frequency}

SharedGenerations(w1, w2) ==
    Elems(word_cache[w1].sentences) \cap Elems(word_cache[w2].sentences)

\* the unordered pairs of distinct qualifying words that share a generation
CoOccurringPairs(min_frequency) ==
    {pr \in SUBSET Qualifying(min_frequency) :
        /\ Cardinality(pr) = 2
        /\ \E w1 \in pr, w2 \in pr : w1 # w2 /\ SharedGenerations(w1, w2) # {}}

\* the maximal runs <<first, last>> of alphabetic chars of a string
AlphabeticRuns(s) ==
    {r \in (1..Len(s)) \X (1..Len(s)) :
        /\ r[1] <= r[2]
        /\ \A i \in r[1]..r[2] : is_alphabetic(s[i])
        /\ (r[1] = 1 \/ ~is_alphabetic(s[r[1] - 1]))
        /\ (r[2] = Len(s) \/ ~is_alphabetic(s[r[2] + 1]))}

\* the runs of s from left to right, each as a string
RunStrings(s) ==
    LET R == AlphabeticRuns(s)
        nth(k) == CHOOSE r \in R : Cardinality({q \in R : q[1] < r[1]}) = k - 1
    IN [k \in 1..Cardinality(R) |-> SubSeq(s, nth(k)[1], nth(k)[2])]

(***************************************************************************)
(* C1: the word cache and generation_count are exactly what the most       *)
(* recent tokenize_generations alone builds from an empty processor;       *)
(* nothing of an earlier batch survives and no query changes the cache.    *)
(***************************************************************************)
C1_CacheIsLastIngestAlone ==
    /\ word_cache = ProcessGenerations(EmptyCache, GenerationsVec(submitted), 1)
    /\ generation_count = Len(GenerationsVec(submitted))

\* a query answered after an ingest that threw away a word of an earlier batch
C1_Witness ==
    /\ evicted
    /\ DOMAIN word_cache # {}
    /\ result.op \in {"build_word_graph", "get_word_frequencies", "get_performance_stats"}

(***************************************************************************)
(* C2: build_word_graph emits exactly one link for each unordered pair of  *)
(* distinct qualifying words sharing a generation and none otherwise; the  *)
(* link has the lexicographically smaller word as source, the larger as    *)
(* target, and the number of shared generations as weight.                 *)
(***************************************************************************)
C2_OneLinkPerCoOccurringPair ==
    result.op = "build_word_graph" =>
        \A w1 \in Qualifying(result.min_frequency), w2 \in Qualifying(result.min_frequency) :
            w1 # w2 =>
                LET between == {l \in BagToSet(result.links) :
                                    {l.source, l.target} = {w1, w2}}
                    shared == SharedGenerations(w1, w2)
                IN IF shared = {} THEN between = {}
                   ELSE \E l \in between :
                            /\ between = {l}
                            /\ CopiesIn(l, result.links) = 1
                            /\ LexLess(l.source, l.target)
                            /\ l.weight = Cardinality(shared)

\* Scenario B: cat-sat and dog-sat linked with weight 1, cat and dog unlinked
C2_Witness ==
    /\ result.op = "build_word_graph"
    /\ result.min_frequency = 1
    /\ BagToSet(result.links) =
          {[source |-> <<99,97,116>>, target |-> <<115,97,116>>, weight |-> 1],
           [source |-> <<100,111,103>>, target |-> <<115,97,116>>, weight |-> 1]}
    /\ {<<99,97,116>>, <<100,111,103>>} \subseteq Qualifying(1)

(***************************************************************************)
(* C3: after any ingest a word is cached if and only if it occurs in some  *)
(* generation, has more than 2 characters and is not a stop word.          *)
(***************************************************************************)
C3_CachedIffLongerThanTwoChars ==
    \A w \in OccurringWords(submitted) \cup DOMAIN word_cache :
        w \in DOMAIN word_cache <=>
            /\ w \in OccurringWords(submitted)
            /\ Len(w) > 2
            /\ w \notin stop_words

(***************************************************************************)
(* C4 as stated: the tokens are the maximal runs of alphabetic characters  *)
(* of the text, each lowercased; no token is empty and every token holds   *)
(* only alphabetic characters.                                             *)
(***************************************************************************)
C4_TokensAreLowercasedRunsOfText ==
    result.op = "tokenize_sentence" =>
        /\ result.tokens =
              [k \in 1..Len(RunStrings(text)) |-> to_lowercase(RunStrings(text)[k])]
        /\ \A k \in 1..Len(result.tokens) :
              /\ result.tokens[k] # <<>>
              /\ \A i \in 1..Len(result.tokens[k]) : is_alphabetic(result.tokens[k][i])

(***************************************************************************)
(* C4 amended: the tokens are, in order, the maximal runs of alphabetic    *)
(* characters of the lowercased text, so every char of the lowercased text *)
(* that is not alphabetic separates tokens; no token is empty and every    *)
(* token holds only alphabetic characters.                                 *)
(***************************************************************************)
C4_TokensAreRunsOfLowercasedText ==
    result.op = "tokenize_sentence" =>
        /\ result.tokens = RunStrings(to_lowercase(text))
        /\ \A k \in 1..Len(result.tokens) :
              /\ result.tokens[k] # <<>>
              /\ \A i \in 1..Len(result.tokens[k]) : is_alphabetic(result.tokens[k][i])

\* "A|" U+0130 "a": punctuation after a capital, then a char whose lowercase
\* form holds a non-alphabetic char
C4_Witness ==
    /\ result.op = "tokenize_sentence"
    /\ text = <<65, 124, 304, 97>>
    /\ result.tokens = << <<97>>, <<105>>, <<97>> >>

(***************************************************************************)
(* C5: the sentences of every cached word are non-empty, strictly          *)
(* ascending and below generation_count.                                   *)
(***************************************************************************)
C5_SentencesStrictlyAscending ==
    \A w \in DOMAIN word_cache :
        LET s == word_cache[w].sentences
        IN /\ Len(s) >= 1
           /\ \A i \in 1..Len(s) : s[i] >= 0 /\ s[i] < generation_count
           /\ \A i \in 1..(Len(s) - 1) : s[i] < s[i + 1]

\* one word in two generations, another repeated inside one generation
C5_Witness ==
    /\ result.op = "tokenize_generations"
    /\ \E w \in DOMAIN word_cache : Len(word_cache[w].sentences) = 2
    /\ \E w \in DOMAIN word_cache : word_cache[w].count > Len(word_cache[w].sentences)

C7_NodesAreQualifyingWords ==
    result.op = "build_word_graph" =>
        LET mf == result.min_frequency
            counts == {word_cache[w].count : w \in DOMAIN word_cache}
        IN /\ BagToSet(result.nodes) =
                 {[word |-> w, count |-> word_cache[w].count,
                   sentences |-> word_cache[w].sentences,
                   word_indices |-> word_cache[w].word_indices,
                   children |-> <<>>, parents |-> <<>>,
                   is_root |-> FALSE, is_end |-> FALSE] : w \in Qualifying(mf)}
           /\ \A n \in BagToSet(result.nodes) : CopiesIn(n, result.nodes) = 1
           /\ result.total_words =
                 SumOver([w \in DOMAIN word_cache |-> word_cache[w].count],
                         DOMAIN word_cache)
           /\ result.unique_words = Cardinality(DOMAIN word_cache)
           /\ (mf = 0 =>
                 {n.word : n \in BagToSet(result.nodes)} = DOMAIN word_cache)
           /\ ((\A c \in counts : mf > c) =>
                 result.nodes = EmptyBag /\ result.links = EmptyBag)

\* a threshold that keeps one cached word and drops another
C7_Witness ==
    /\ result.op = "build_word_graph"
    /\ \E w \in DOMAIN word_cache : word_cache[w].count < result.min_frequency
    /\ \E n \in BagToSet(result.nodes) : n.count >= result.min_frequency
    /\ result.unique_words > BagCardinality(result.nodes)

(***************************************************************************)
(* C8 as stated: generation_count and totalGenerations equal the length of *)
(* the submitted array, and an index in sentences is the position of the   *)
(* generation in the submitted array.                                      *)
(***************************************************************************)
C8_IndicesAreSubmittedPositions ==
    /\ generation_count = Len(submitted)
    /\ result.op = "tokenize_generations" =>
          result.ok /\ result.totalGenerations = Len(submitted)
    /\ \A w \in DOMAIN word_cache : \A i \in Elems(word_cache[w].sentences) :
          /\ i + 1 \in TextPositions(submitted)
          /\ w \in Elems(tokenize_sentence(submitted[i + 1].str))

(***************************************************************************)
(* C8 amended: the ingest succeeds; generation_count and totalGenerations  *)
(* equal the number of text entries of the submitted array, and an index   *)
(* in sentences is the 0-based rank of the generation among the text       *)
(* entries, in input order.                                                *)
(***************************************************************************)
C8_IndicesAreRanksAmongTexts ==
    /\ generation_count = Cardinality(TextPositions(submitted))
    /\ result.op = "tokenize_generations" =>
          result.ok /\ result.totalGenerations = Cardinality(TextPositions(submitted))
    /\ \A w \in DOMAIN word_cache : \A i \in Elems(word_cache[w].sentences) :
          \E p \in TextPositions(submitted) :
              /\ RankAmongTexts(submitted, p) = i
              /\ w \in Elems(tokenize_sentence(submitted[p].str))
    /\ \A p \in TextPositions(submitted) :
          \A w \in Elems(tokenize_sentence(submitted[p].str)) :
              Retained(w) =>
                  /\ w \in DOMAIN word_cache
                  /\ RankAmongTexts(submitted, p) \in Elems(word_cache[w].sentences)

\* a non-text entry submitted ahead of a text entry that leaves words
C8_Witness ==
    /\ result.op = "tokenize_generations"
    /\ Len(submitted) = 2
    /\ ~submitted[1].is_string
    /\ submitted[2].is_string
    /\ DOMAIN word_cache # {}
    /\ generation_count = 1

(***************************************************************************)
(* C9: get_performance_stats can always be called; it reports the sum of   *)
(* the counts, the cache size and generation_count, and whenever           *)
(* generations is 0 the cache is empty, both totals are 0 and the average  *)
(* is the NaN of 0/0.                                                      *)
(***************************************************************************)
C9_StatsDefinedAndDegenerateAtZero ==
    /\ ENABLED GetPerformanceStats
    /\ result.op = "get_performance_stats" =>
          /\ result.totalWords =
                SumOver([w \in DOMAIN word_cache |-> word_cache[w].count],
                        DOMAIN word_cache)
          /\ result.uniqueWords = Cardinality(DOMAIN word_cache)
          /\ result.generations = generation_count
          /\ result.generations = 0 =>
                /\ DOMAIN word_cache = {}
                /\ result.totalWords = 0
                /\ result.uniqueWords = 0
                /\ result.averageWordsPerGeneration.kind = "NaN"
          /\ result.generations > 0 =>
                /\ result.averageWordsPerGeneration.kind = "finite"
                /\ result.averageWordsPerGeneration.num = result.totalWords
                /\ result.averageWordsPerGeneration.den = result.generations

\* the statistics asked after an empty batch replaced a non-empty one
C9_Witness ==
    /\ result.op = "get_performance_stats"
    /\ result.generations = 0
    /\ evicted

(***************************************************************************)
(* C10: every link joins two words of nodes of the same result, source     *)
(* strictly smaller than target; cached words hold only alphabetic chars,  *)
(* so no "w1|w2" key is dropped or mis-split and there are as many links   *)
(* as unordered qualifying pairs sharing a generation.                     *)
(***************************************************************************)
C10_LinksJoinNodesNoneDropped ==
    /\ \A w \in DOMAIN word_cache : \A i \in 1..Len(w) : is_alphabetic(w[i])
    /\ result.op = "build_word_graph" =>
          LET words == {n.word : n \in BagToSet(result.nodes)}
          IN /\ \A l \in BagToSet(result.links) :
                   /\ l.source \in words
                   /\ l.target \in words
                   /\ LexLess(l.source, l.target)
             /\ BagCardinality(result.links) =
                   Cardinality(CoOccurringPairs(result.min_frequency))

\* a graph with a link, built from a generation written with '|' and a capital
C10_Witness ==
    /\ result.op = "build_word_graph"
    /\ \E p \in TextPositions(submitted) : 124 \in Elems(submitted[p].str)
    /\ [source |-> <<100,111,103>>, target |-> <<233,97>>, weight |-> 1]
          \in BagToSet(result.links)

====
